---- MODULE Spec2Model ----
(***************************************************************************)
(* The message-send pipeline of the chat front end, in its four versions: *)
(*   "simple"     src/App.js                (direct API call, welcome)     *)
(*   "proxy"      src/src/App.js:1-301      (backend proxy, starter cards) *)
(*   "clientsort" src/src/App.js:302-581    (client-side sort, isError)    *)
(*   "direct"     src/src/App.js:583-865    (direct API call, error state) *)
(* React state is the component's useState cells; a render is committed    *)
(* before the next event is dispatched, so the handlers of an event read   *)
(* the current cells, except a starter-prompt timer, which keeps the       *)
(* closure of the render in which the card was clicked, and a running      *)
(* handleSendMessage, which keeps the closure it was invoked with.         *)
(***************************************************************************)
EXTENDS Integers, Sequences, FiniteSets, TLC

\* ------------------------------------------------------------------ bounds
MaxSends == 2        \* invocations of handleSendMessage that pass its guard
MaxTimers == 2       \* starter-prompt timers pending at once

\* ------------------------------------------------------------------ values
Variants == {"simple", "proxy", "clientsort", "direct"}

NULL == "null"
SP == " "
WelcomeId == 0

\* Texts are sequences of characters; SP is the only whitespace character.
Texts == { <<>>, <<SP>>, <<SP, "a", SP>> }
Prompt == <<"Explain recursion">>

WelcomeText == <<"Hello! I'm a general-purpose AI assistant">>
FallbackText == <<"Sorry, I couldn't generate a response.">>
ReplyText == <<"reply">>
UNDEFINED == <<"undefined">>

RECURSIVE TrimStart(_)
TrimStart(s) == IF s # <<>> /\ Head(s) = SP THEN TrimStart(Tail(s)) ELSE s

RECURSIVE TrimEnd(_)
TrimEnd(s) ==
    IF s # <<>> /\ s[Len(s)] = SP THEN TrimEnd(SubSeq(s, 1, Len(s) - 1)) ELSE s

\* String.prototype.trim
Trim(s) == TrimEnd(TrimStart(s))

\* The versions with the error state cell (useState(null) for error).
HasErrorState(v) == v # "simple"

\* The versions whose subscription callback shows the welcome message.
HasWelcome(v) == v \in {"simple", "direct"}

VARIABLES
    variant,      \* which version of App.js runs
    apiKey,       \* process.env.REACT_APP_GEMINI_API_KEY is set
    script,       \* the completion endpoint: its answer to the k-th call
    authPhase,    \* "start" | "signedIn" | "failed"
    subAlive,     \* the snapshot listener is attached and has not errored
    userId,       \* useState: NULL or the uid
    isAuthReady,  \* useState
    messages,     \* useState: the in-memory message list
    input,        \* useState: the input buffer
    isLoading,    \* useState: the busy flag
    error,        \* useState: the error indicator (NULL or its text)
    store,        \* the messages collection as the client sees it
    clock,        \* the last server timestamp handed out
    nextId,       \* the next document id
    fetches,      \* number of calls the endpoint has answered
    runs,         \* the invocations of handleSendMessage that passed the guard
    timers,       \* pending starter-prompt timers (closures)
    noop          \* why the last invocation that returned at the guard did so

vars == << variant, apiKey, script, authPhase, subAlive, userId, isAuthReady,
           messages, input, isLoading, error, store, clock, nextId, fetches,
           runs, timers, noop >>


\* ------------------------------------------------------------ the endpoint
\* What the completion endpoint can answer to one call: a 2xx response with a
\* well-formed payload ("ok"), a 2xx response with a payload that has no
\* candidates, a first part without a text field, an empty text or a body that
\* is not JSON, a 500, a 404, or no response at all (fetch rejects).
Responses == {"ok", "noCandidates", "noText", "emptyText", "badJson",
              "s500", "s404", "netfail"}

Scripts == { <<"s500", "s500", "ok">>,
             <<"s404", "ok", "ok">>,
             <<"ok", "ok", "ok">>,
             <<"ok", "netfail", "ok">>,
             <<"noCandidates", "noText", "ok">>,
             <<"emptyText", "badJson", "ok">> }

\* The endpoint's answer to its k-th call.
Answer(k) == IF k <= Len(script) THEN script[k] ELSE script[Len(script)]

\* response.ok
ResponseOk(resp) == resp \in {"ok", "noCandidates", "noText", "emptyText", "badJson"}

\* ------------------------------------------------------------- the store
UserDoc(id, text) ==
    [id |-> id, text |-> text, sender |-> "user", isError |-> FALSE, ts |-> 0]

BotDoc(id, text, isErr) ==
    [id |-> id, text |-> text, sender |-> "bot", isError |-> isErr, ts |-> 0]

WelcomeMessage ==
    [id |-> WelcomeId, text |-> WelcomeText, sender |-> "bot", isError |-> FALSE, ts |-> 0]

\* A write is pending (serverTimestamp() not yet resolved) while ts = 0.
Pending(s) == { i \in 1..Len(s) : s[i].ts = 0 }

FirstPendingId(s) ==
    IF Pending(s) = {} THEN 0
    ELSE s[CHOOSE i \in Pending(s) : \A j \in Pending(s) : i <= j].id

\* The server acknowledges the write of document id with the next timestamp.
Acked(s, id, t) == [i \in 1..Len(s) |-> IF s[i].id = id THEN [s[i] EXCEPT !.ts = t] ELSE s[i]]

\* The server refuses the write of document id: the local write is reverted.
Reverted(s, id) == SelectSeq(s, LAMBDA d : d.id # id)

\* ------------------------------------------------- the subscription callback
RECURSIVE PermsOf(_)
PermsOf(S) ==
    IF S = {} THEN { <<>> }
    ELSE UNION { { <<x>> \o p : p \in PermsOf(S \ {x}) } : x \in S }

\* Mutant of InsertByTs: a message is put before those of equal timestamp (a
\* sort that is not stable).
InsertByTsBeforeEqual(sorted, m) ==
    LET k == Cardinality({ i \in 1..Len(sorted) : sorted[i].ts < m.ts })
    IN  SubSeq(sorted, 1, k) \o <<m>> \o SubSeq(sorted, k + 1, Len(sorted))

\* fetchedMessages.sort((a, b) => (a.timestamp || 0) - (b.timestamp || 0)):
\* a stable sort, one insertion at a time.
InsertByTs(sorted, m) ==
    LET k == Cardinality({ i \in 1..Len(sorted) : sorted[i].ts <= m.ts })
    IN  SubSeq(sorted, 1, k) \o <<m>> \o SubSeq(sorted, k + 1, Len(sorted))

\* Mutant of SortByTs: the callback keeps the order of arrival.
SortByArrival(docs) == docs

RECURSIVE SortByTs(_)
SortByTs(docs) ==
    IF docs = <<>> THEN <<>>
    ELSE InsertByTs(SortByTs(SubSeq(docs, 1, Len(docs) - 1)), docs[Len(docs)])

\* The documents of a snapshot, in the order the listener receives them: the
\* query's order with orderBy("timestamp"), any order without it.
SnapshotDocs(v, s) ==
    IF v = "clientsort"
    THEN { [i \in 1..Len(s) |-> s[p[i]]] : p \in PermsOf(1..Len(s)) }
    ELSE { s }

\* Mutant of FetchedMessages: the welcome message is shown ahead of every
\* snapshot, empty or not.
FetchedMessagesWelcomeFirst(v, docs) ==
    IF v = "clientsort" THEN SortByTs(docs)
    ELSE IF HasWelcome(v) THEN << WelcomeMessage >> \o docs
    ELSE docs

\* What the onSnapshot callback hands to setMessages.
FetchedMessages(v, docs) ==
    IF v = "clientsort" THEN SortByTs(docs)
    ELSE IF HasWelcome(v) /\ docs = <<>> THEN << WelcomeMessage >>
    ELSE docs


\* ------------------------------------------------------ handleSendMessage
ErrNull == <<>>      \* setError(null)

\* The closure a handler invocation reads: the cells as rendered.
Closure == [input |-> input, isLoading |-> isLoading, userId |-> userId,
            messages |-> messages]

\* prompt || input; only the proxy and clientsort versions take a prompt.
RawText(v, c, prompt) ==
    IF v \in {"proxy", "clientsort"} /\ prompt # <<>> THEN prompt ELSE c.input

\* textToSend / currentInput: the text of the user message.
TextToSend(v, c, prompt) ==
    IF v = "clientsort" THEN Trim(RawText(v, c, prompt)) ELSE RawText(v, c, prompt)

\* if (!textToSend.trim() || isLoading || !userId) return;
GuardPasses(v, c, prompt) ==
    /\ Trim(TextToSend(v, c, prompt)) # <<>>
    /\ ~c.isLoading
    /\ c.userId # NULL

\* The first operand of the guard that makes handleSendMessage return.
GuardFailure(v, c, prompt) ==
    IF Trim(TextToSend(v, c, prompt)) = <<>> THEN "blank"
    ELSE IF c.isLoading THEN "busy"
    ELSE IF c.userId = NULL THEN "nouser"
    ELSE "none"

\* role: msg.sender === 'bot' ? 'model' : 'user'
Role(sender) == IF sender = "bot" THEN "model" ELSE "user"

\* Mutant of Kept: the filter on the welcome message is forgotten.
KeptAll(v, msgs) == msgs

\* .filter(msg => msg.id !== 'welcome-1'), absent in the clientsort version
Kept(v, msgs) ==
    IF v = "clientsort" THEN msgs ELSE SelectSeq(msgs, LAMBDA m : m.id # WelcomeId)

\* Mutant of ChatHistory: the new user turn carries the trimmed text.
ChatHistoryTrimmed(v, msgs, text) ==
    [i \in 1..Len(Kept(v, msgs)) |->
        [role |-> Role(Kept(v, msgs)[i].sender), text |-> Kept(v, msgs)[i].text]]
    \o << [role |-> "user", text |-> Trim(text)] >>

\* chatHistory: the mapped message list, then the new user turn pushed.
ChatHistory(v, msgs, text) ==
    [i \in 1..Len(Kept(v, msgs)) |->
        [role |-> Role(Kept(v, msgs)[i].sender), text |-> Kept(v, msgs)[i].text]]
    \o << [role |-> "user", text |-> text] >>

\* botResponseText for a 2xx response whose body parses.
BotResponseText(v, resp) ==
    CASE resp = "ok" -> ReplyText
      [] resp = "noCandidates" -> FallbackText
      [] resp = "noText" -> IF v = "clientsort" THEN FallbackText ELSE UNDEFINED
      [] resp = "emptyText" -> IF v = "clientsort" THEN FallbackText ELSE <<>>
      [] OTHER -> FallbackText

\* error.message of what is thrown inside the try block.
ErrorMessage(v, cause) ==
    CASE cause = "noKey" -> <<"API_KEY_NOT_FOUND">>
      [] cause \in {"s500", "s404"} ->
            IF v = "proxy" THEN <<"API call failed">>
            ELSE IF v = "clientsort" THEN <<"API Error: ", cause>>
            ELSE <<"API call failed with status: ", cause>>
      [] OTHER -> <<cause>>

\* The text of the error message the catch block builds.
ErrorText(v, cause) ==
    IF v \in {"proxy", "clientsort"} THEN <<"An error occurred: ">> \o ErrorMessage(v, cause)
    ELSE IF v = "direct" /\ ErrorMessage(v, cause) = <<"API_KEY_NOT_FOUND">>
         THEN <<"Could not find the Gemini API Key.">>
    ELSE <<"I'm having trouble connecting to my brain right now.">>

\* The catch block reaches its addDoc call: in the proxy version messagesColPath
\* is declared inside the try block, so the catch block throws a ReferenceError
\* before it.
CatchAppends(v) == v # "proxy"

\* The user-message append is inside the try block.
UserAppendInTry(v) == v \in {"proxy", "clientsort"}

NewRun(c, text) ==
    [pc |-> "userAppend", text |-> text, msgs |-> c.messages, transcript |-> <<>>,
     calls |-> 0, answers |-> <<>>, doc |-> nextId, userStored |-> FALSE,
     userFailed |-> FALSE, bots |-> <<>>, errIssued |-> 0,
     idleAtStart |-> \A r \in 1..Len(runs) : runs[r].pc \in {"done", "rejected"},
     listAtStart |-> messages, userDoc |-> nextId]

\* Mutant of Invoke: the input buffer is cleared before the guard.
InvokeClearsFirst(c, prompt) ==
    IF GuardPasses(variant, c, prompt)
    THEN /\ Len(runs) < MaxSends
         /\ isLoading' = TRUE
         /\ input' = <<>>
         /\ error' = IF variant = "clientsort" THEN ErrNull ELSE error
         /\ store' = Append(store, UserDoc(nextId, TextToSend(variant, c, prompt)))
         /\ nextId' = nextId + 1
         /\ runs' = Append(runs, NewRun(c, TextToSend(variant, c, prompt)))
         /\ UNCHANGED noop
    ELSE /\ noop' = GuardFailure(variant, c, prompt)
         /\ input' = <<>>
         /\ UNCHANGED << isLoading, error, store, nextId, runs >>

\* One invocation of handleSendMessage with closure c, up to its first await.
Invoke(c, prompt) ==
    IF GuardPasses(variant, c, prompt)
    THEN /\ Len(runs) < MaxSends
         /\ isLoading' = TRUE
         /\ input' = <<>>
         /\ error' = IF variant = "clientsort" THEN ErrNull ELSE error
         /\ store' = Append(store, UserDoc(nextId, TextToSend(variant, c, prompt)))
         /\ nextId' = nextId + 1
         /\ runs' = Append(runs, NewRun(c, TextToSend(variant, c, prompt)))
         /\ UNCHANGED noop
    ELSE /\ noop' = GuardFailure(variant, c, prompt)
         /\ UNCHANGED << isLoading, input, error, store, nextId, runs >>

\* catch (error) { ... } finally { setIsLoading(false) }, up to the await of
\* the error-message append; rs and s are the runs and the store so far.
Catch(r, rs, s, cause) ==
    /\ error' = IF variant = "clientsort" THEN ErrorMessage(variant, cause) ELSE error
    /\ IF CatchAppends(variant)
       THEN /\ store' = Append(s, BotDoc(nextId, ErrorText(variant, cause), variant = "clientsort"))
            /\ nextId' = nextId + 1
            /\ runs' = [rs EXCEPT ![r].pc = "errAppend", ![r].doc = nextId,
                                  ![r].errIssued = @ + 1]
            /\ UNCHANGED isLoading
       ELSE /\ store' = s
            /\ runs' = [rs EXCEPT ![r].pc = "rejected", ![r].doc = 0]
            /\ isLoading' = FALSE
            /\ UNCHANGED nextId


\* ------------------------------------------------------------------- Init
Init ==
    /\ variant \in Variants
    /\ apiKey \in (IF variant = "direct" THEN BOOLEAN ELSE {TRUE})
    /\ script \in Scripts
    /\ authPhase = "start"
    /\ subAlive = FALSE
    /\ userId = NULL
    /\ isAuthReady = FALSE
    /\ messages = <<>>
    /\ input = <<>>
    /\ isLoading = FALSE
    /\ error = ErrNull
    /\ store = <<>>
    /\ clock = 0
    /\ nextId = 1
    /\ fetches = 0
    /\ runs = <<>>
    /\ timers = <<>>
    /\ noop = "none"

envVars == << variant, apiKey, script >>
pipeVars == << store, clock, nextId, fetches, runs >>

\* ------------------------------------------------ authentication effect
\* onAuthStateChanged delivers the signed-in user: setUserId, setIsAuthReady;
\* the subscription effect then attaches the snapshot listener.
AuthSignedIn ==
    /\ authPhase = "start"
    /\ authPhase' = "signedIn"
    /\ userId' = "u1"
    /\ isAuthReady' = TRUE
    /\ subAlive' = TRUE
    /\ UNCHANGED << envVars, messages, input, isLoading, error, pipeVars, timers, noop >>

\* signInAnonymously rejects: setError (where the cell exists), setIsAuthReady.
AuthFailed ==
    /\ authPhase = "start"
    /\ authPhase' = "failed"
    /\ isAuthReady' = TRUE
    /\ error' = IF HasErrorState(variant) THEN <<"Could not authenticate with Firebase.">> ELSE error
    /\ UNCHANGED << envVars, subAlive, userId, messages, input, isLoading, pipeVars, timers,
                    noop >>

\* ---------------------------------------------------- subscription effect
\* onSnapshot success callback: the whole current collection replaces messages.
SnapshotDeliver ==
    /\ subAlive
    /\ \E docs \in SnapshotDocs(variant, store) :
          messages' = FetchedMessages(variant, docs)
    /\ UNCHANGED << envVars, authPhase, subAlive, userId, isAuthReady, input, isLoading,
                    error, pipeVars, timers, noop >>

\* onSnapshot error callback: the listener is cancelled by the SDK.
SubscriptionError ==
    /\ subAlive
    /\ subAlive' = FALSE
    /\ error' = IF HasErrorState(variant) THEN <<"Could not fetch messages.">> ELSE error
    /\ UNCHANGED << envVars, authPhase, userId, isAuthReady, messages, input, isLoading,
                    pipeVars, timers, noop >>

\* ------------------------------------------------------------ the controls
\* disabled={isLoading} / disabled={isLoading || !!error}
InputDisabled ==
    isLoading \/ (HasErrorState(variant) /\ error # ErrNull)

\* disabled={isLoading || !!error || !input.trim()}
SubmitDisabled == InputDisabled \/ Trim(input) = <<>>

\* The starter-prompt cards are rendered.
CardsVisible ==
    /\ isAuthReady
    /\ \/ variant = "proxy" /\ messages = <<>>
       \/ variant = "clientsort" /\ messages = <<>> /\ ~isLoading

\* onChange={(e) => setInput(e.target.value)}
TypeInput(t) ==
    /\ isAuthReady
    /\ ~InputDisabled
    /\ t # input
    /\ input' = t
    /\ UNCHANGED << envVars, authPhase, subAlive, userId, isAuthReady, messages, isLoading,
                    error, pipeVars, timers, noop >>

\* Mutant of SubmitForm: the handler also pushes the user message onto the
\* in-memory list (an optimistic update).
SubmitFormOptimistic ==
    /\ isAuthReady
    /\ ~SubmitDisabled
    /\ Invoke(Closure, <<>>)
    /\ messages' = IF GuardPasses(variant, Closure, <<>>)
                   THEN Append(messages, UserDoc(nextId, TextToSend(variant, Closure, <<>>)))
                   ELSE messages
    /\ UNCHANGED << envVars, authPhase, subAlive, userId, isAuthReady, clock,
                    fetches, timers >>

\* <form onSubmit={handleSendMessage}> through its submit button.
SubmitForm ==
    /\ isAuthReady
    /\ ~SubmitDisabled
    /\ Invoke(Closure, <<>>)
    /\ UNCHANGED << envVars, authPhase, subAlive, userId, isAuthReady, messages, clock,
                    fetches, timers >>

\* onKeyDown: Enter without Shift in the textarea calls handleSendMessage(e).
PressEnter ==
    /\ isAuthReady
    /\ variant \in {"proxy", "clientsort"}
    /\ ~InputDisabled
    /\ Invoke(Closure, <<>>)
    /\ UNCHANGED << envVars, authPhase, subAlive, userId, isAuthReady, messages, clock,
                    fetches, timers >>

\* A starter card is clicked. proxy: handleStarterPrompt arms a 0 ms timer that
\* keeps this render's handleSendMessage; clientsort: the card calls
\* handleSendMessage(null, prompt) itself.
ClickStarter ==
    /\ CardsVisible
    /\ IF variant = "proxy"
       THEN /\ Len(timers) < MaxTimers
            /\ timers' = Append(timers, Closure)
            /\ UNCHANGED << input, isLoading, error, store, nextId, runs, noop >>
       ELSE /\ Invoke(Closure, Prompt)
            /\ UNCHANGED timers
    /\ UNCHANGED << envVars, authPhase, subAlive, userId, isAuthReady, messages, clock, fetches >>

\* The timer of handleStarterPrompt fires: handleSendMessage(null, prompt) of
\* the render in which the card was clicked.
TimerFire ==
    /\ timers # <<>>
    /\ Invoke(Head(timers), Prompt)
    /\ timers' = Tail(timers)
    /\ UNCHANGED << envVars, authPhase, subAlive, userId, isAuthReady, messages, clock, fetches >>


\* --------------------------------------- handleSendMessage after its awaits
RunIds == 1..Len(runs)

\* Run r awaits the write the server answers next (writes are answered in the
\* order they were issued).
Awaits(r, pc) ==
    /\ runs[r].pc = pc
    /\ runs[r].doc = FirstPendingId(store)

uiVars == << envVars, authPhase, subAlive, userId, isAuthReady, messages, input,
             timers, noop >>

\* What can be thrown inside the try block.
Causes ==
    (Responses \ {"ok"}) \cup
    {"noKey", "store", "Unexpected token", "Unsupported field value: undefined"}

\* Message m is an error notice written by a catch block of version v.
IsErrorNotice(v, m) ==
    /\ m.sender = "bot"
    /\ m.isError \/ m.text \in { ErrorText(v, cause) : cause \in Causes }

\* Mutant of UserAppendAck: error notices are left out of chatHistory.
UserAppendAckDropsErrors(r) ==
    /\ Awaits(r, "userAppend")
    /\ clock' = clock + 1
    /\ LET s1 == Acked(store, runs[r].doc, clock + 1)
           rs1 == [runs EXCEPT ![r].userStored = TRUE, ![r].doc = 0,
                     ![r].transcript =
                        ChatHistory(variant,
                            SelectSeq(runs[r].msgs, LAMBDA m : ~IsErrorNotice(variant, m)),
                            runs[r].text)]
       IN  IF variant = "direct" /\ ~apiKey
           THEN Catch(r, rs1, s1, "noKey")
           ELSE /\ runs' = [rs1 EXCEPT ![r].pc = "fetch", ![r].calls = @ + 1]
                /\ store' = s1
                /\ UNCHANGED << isLoading, error, nextId >>
    /\ UNCHANGED << uiVars, fetches >>

\* await addDoc(userMessage) resolves: chatHistory is built and fetch is called
\* (the direct version throws first when the API key is missing).
UserAppendAck(r) ==
    /\ Awaits(r, "userAppend")
    /\ clock' = clock + 1
    /\ LET s1 == Acked(store, runs[r].doc, clock + 1)
           rs1 == [runs EXCEPT ![r].userStored = TRUE, ![r].doc = 0,
                     ![r].transcript = ChatHistory(variant, runs[r].msgs, runs[r].text)]
       IN  IF variant = "direct" /\ ~apiKey
           THEN Catch(r, rs1, s1, "noKey")
           ELSE /\ runs' = [rs1 EXCEPT ![r].pc = "fetch", ![r].calls = @ + 1]
                /\ store' = s1
                /\ UNCHANGED << isLoading, error, nextId >>
    /\ UNCHANGED << uiVars, fetches >>

\* Mutant of UserAppendReject: the rejection of the user-message append is
\* swallowed and the handler goes on to the completion call.
UserAppendRejectContinues(r) ==
    /\ Awaits(r, "userAppend")
    /\ runs' = [runs EXCEPT ![r].userFailed = TRUE, ![r].doc = 0, ![r].pc = "fetch",
                  ![r].calls = @ + 1,
                  ![r].transcript = ChatHistory(variant, runs[r].msgs, runs[r].text)]
    /\ store' = Reverted(store, runs[r].doc)
    /\ UNCHANGED << uiVars, isLoading, error, nextId, clock, fetches >>

\* await addDoc(userMessage) rejects: inside the try block the catch block
\* runs; outside it the rejection leaves handleSendMessage at once.
UserAppendReject(r) ==
    /\ Awaits(r, "userAppend")
    /\ LET s1 == Reverted(store, runs[r].doc)
           rs1 == [runs EXCEPT ![r].userFailed = TRUE, ![r].doc = 0]
       IN  IF UserAppendInTry(variant)
           THEN Catch(r, rs1, s1, "store")
           ELSE /\ runs' = [rs1 EXCEPT ![r].pc = "rejected"]
                /\ store' = s1
                /\ UNCHANGED << isLoading, error, nextId >>
    /\ UNCHANGED << uiVars, clock, fetches >>

\* What handleSendMessage does with the answer resp to its fetch: a rejected
\* fetch, a response that is not ok, a body that does not parse and a text that
\* addDoc refuses all end in the catch block; otherwise the bot message is
\* written. rs is runs with the answer recorded.
FetchSettled(r, rs, resp) ==
    IF ~ResponseOk(resp)
    THEN Catch(r, rs, store, resp)
    ELSE IF resp = "badJson"
    THEN Catch(r, rs, store, "Unexpected token")
    ELSE IF BotResponseText(variant, resp) = UNDEFINED
    THEN Catch(r, rs, store, "Unsupported field value: undefined")
    ELSE /\ store' = Append(store, BotDoc(nextId, BotResponseText(variant, resp), FALSE))
         /\ nextId' = nextId + 1
         /\ runs' = [rs EXCEPT ![r].pc = "botAppend", ![r].doc = nextId]
         /\ UNCHANGED << isLoading, error >>

\* A fetch wrapped in a retry loop of three attempts over the answers in
\* retryable (the shape of both mutants of FetchRespond).
FetchRespondRetrying(r, retryable) ==
    /\ runs[r].pc = "fetch"
    /\ fetches' = fetches + 1
    /\ IF Answer(fetches + 1) \in retryable /\ runs[r].calls < 3
       THEN /\ runs' = [runs EXCEPT ![r].answers = Append(@, Answer(fetches + 1)),
                                    ![r].calls = @ + 1]
            /\ UNCHANGED << store, nextId, isLoading, error >>
       ELSE FetchSettled(r, [runs EXCEPT ![r].answers = Append(@, Answer(fetches + 1))],
                         Answer(fetches + 1))
    /\ UNCHANGED << uiVars, clock >>

\* Mutant of FetchRespond: server errors and network failures are retried.
FetchRespondRetry5xx(r) == FetchRespondRetrying(r, {"s500", "netfail"})

\* Mutant of FetchRespond: every response that is not ok is retried.
FetchRespondRetryNotOk(r) == FetchRespondRetrying(r, {"s500", "s404", "netfail"})

\* await fetch(...) settles, once: there is no retry loop around the call.
FetchRespond(r) ==
    /\ runs[r].pc = "fetch"
    /\ fetches' = fetches + 1
    /\ FetchSettled(r, [runs EXCEPT ![r].answers = Append(@, Answer(fetches + 1))],
                    Answer(fetches + 1))
    /\ UNCHANGED << uiVars, clock >>

\* await addDoc(botMessage) resolves; finally: setIsLoading(false).
BotAppendAck(r) ==
    /\ Awaits(r, "botAppend")
    /\ clock' = clock + 1
    /\ store' = Acked(store, runs[r].doc, clock + 1)
    /\ runs' = [runs EXCEPT ![r].pc = "done", ![r].doc = 0,
                  ![r].bots = Append(@, [text |-> store[CHOOSE i \in 1..Len(store) :
                                                    store[i].id = runs[r].doc].text,
                                         isError |-> FALSE])]
    /\ isLoading' = FALSE
    /\ UNCHANGED << uiVars, error, nextId, fetches >>

\* await addDoc(botMessage) rejects: the catch block runs.
BotAppendReject(r) ==
    /\ Awaits(r, "botAppend")
    /\ Catch(r, [runs EXCEPT ![r].doc = 0], Reverted(store, runs[r].doc), "store")
    /\ UNCHANGED << uiVars, clock, fetches >>

\* await addDoc(errorMessage) resolves; finally: setIsLoading(false).
ErrAppendAck(r) ==
    /\ Awaits(r, "errAppend")
    /\ clock' = clock + 1
    /\ store' = Acked(store, runs[r].doc, clock + 1)
    /\ runs' = [runs EXCEPT ![r].pc = "done", ![r].doc = 0,
                  ![r].bots = Append(@, [text |-> store[CHOOSE i \in 1..Len(store) :
                                                    store[i].id = runs[r].doc].text,
                                         isError |-> store[CHOOSE i \in 1..Len(store) :
                                                    store[i].id = runs[r].doc].isError])]
    /\ isLoading' = FALSE
    /\ UNCHANGED << uiVars, error, nextId, fetches >>

\* await addDoc(errorMessage) rejects inside the catch block: finally runs and
\* the rejection leaves handleSendMessage.
ErrAppendReject(r) ==
    /\ Awaits(r, "errAppend")
    /\ store' = Reverted(store, runs[r].doc)
    /\ runs' = [runs EXCEPT ![r].pc = "rejected", ![r].doc = 0]
    /\ isLoading' = FALSE
    /\ UNCHANGED << uiVars, error, nextId, clock, fetches >>

\* ------------------------------------------------------------------- Next
Next ==
    \/ AuthSignedIn
    \/ AuthFailed
    \/ SnapshotDeliver
    \/ SubscriptionError
    \/ \E t \in Texts : TypeInput(t)
    \/ SubmitForm
    \/ PressEnter
    \/ ClickStarter
    \/ TimerFire
    \/ \E r \in RunIds : UserAppendAck(r)
    \/ \E r \in RunIds : UserAppendReject(r)
    \/ \E r \in RunIds : FetchRespond(r)
    \/ \E r \in RunIds : BotAppendAck(r)
    \/ \E r \in RunIds : BotAppendReject(r)
    \/ \E r \in RunIds : ErrAppendAck(r)
    \/ \E r \in RunIds : ErrAppendReject(r)

Spec == Init /\ [][Next]_vars

\* ----------------------------------------------------------------- claims
Terminal == {"done", "rejected"}

InFlight == { r \in RunIds : runs[r].pc \notin Terminal }

Quiescent == InFlight = {}

\* The completion call of run r was answered and failed.
CompletionFailed(r) ==
    /\ runs[r].answers # <<>>
    /\ ~ResponseOk(runs[r].answers[1])

\* C1 (as claimed): single-flight. A second invocation of handleSendMessage
\* that starts before the first has resolved is a no-op, so at no time are two
\* sends in flight, and the user messages in the store never outnumber the
\* sends that have resolved by more than one.
C1_SingleFlight ==
    Cardinality(InFlight) <= 1

\* C2 (as claimed): a send that has returned and whose user message was stored
\* has appended exactly one bot message (a reply or an error notice).
C2_ExactlyOneBotMessage ==
    \A r \in RunIds :
        (runs[r].pc \in Terminal /\ runs[r].userStored) => Len(runs[r].bots) = 1

\* C3 (as claimed): whichever step fails, once every send has returned the busy
\* flag is false again.
C3_BusyFlagReset ==
    Quiescent => ~isLoading

\* C4 (as claimed): after a send whose completion call failed and whose failure
\* was surfaced as an error message, with nothing in flight and no
\* authentication or subscription error, the input control is enabled, so the
\* user can submit again.
C4_SendableAfterFailure ==
    ( /\ Quiescent
      /\ authPhase = "signedIn"
      /\ subAlive
      /\ \E r \in RunIds : CompletionFailed(r) /\ runs[r].pc = "done" )
    => ~InputDisabled

C6_NoRetryOn4xx ==
    \A r \in RunIds :
        (runs[r].answers # <<>> /\ runs[r].answers[1] = "s404")
        => /\ runs[r].calls = 1
           /\ runs[r].answers = <<"s404">>
           /\ runs[r].pc \in {"errAppend", "done", "rejected"}

C6_Witness ==
    \E r \in RunIds : runs[r].answers = <<"s404">> /\ runs[r].pc \in Terminal

\* C7 (as claimed): the transcript sent has one turn per message of the
\* in-memory list, in order, bot mapped to model and user to user, texts
\* unchanged, then one final user turn with the new text.
C7_TranscriptOfAllMessages ==
    \A r \in RunIds :
        runs[r].calls > 0
        => /\ Len(runs[r].transcript) = Len(runs[r].msgs) + 1
           /\ \A i \in 1..Len(runs[r].msgs) :
                 /\ i <= Len(runs[r].transcript)
                 /\ runs[r].transcript[i].text = runs[r].msgs[i].text
                 /\ runs[r].transcript[i].role =
                       (IF runs[r].msgs[i].sender = "bot" THEN "model" ELSE "user")
           /\ runs[r].transcript[Len(runs[r].transcript)] =
                 [role |-> "user", text |-> runs[r].text]

\* The messages of run r's list that are not the synthetic welcome message.
C7_Persisted(r) == SelectSeq(runs[r].msgs, LAMBDA m : m.id # WelcomeId)

\* C7 (amended): the transcript sent has one turn per message of the in-memory
\* list other than the synthetic welcome message, in order, bot mapped to model
\* and user to user, texts unchanged, then exactly one final user turn with
\* the text of the user message; so it is non-empty and ends with the newest
\* user turn.
C7_TranscriptOfPersistedMessages ==
    \A r \in RunIds :
        runs[r].calls > 0
        => /\ Len(runs[r].transcript) = Len(C7_Persisted(r)) + 1
           /\ \A i \in 1..Len(C7_Persisted(r)) :
                 /\ i <= Len(runs[r].transcript)
                 /\ runs[r].transcript[i].text = C7_Persisted(r)[i].text
                 /\ runs[r].transcript[i].role =
                       (IF C7_Persisted(r)[i].sender = "bot" THEN "model" ELSE "user")
           /\ runs[r].transcript[Len(runs[r].transcript)] =
                 [role |-> "user", text |-> runs[r].text]

C7_Witness ==
    \E r1, r2 \in RunIds :
        /\ runs[r1].calls > 0
        /\ runs[r1].msgs = << WelcomeMessage >>
        /\ runs[r2].calls > 0
        /\ Len(runs[r2].transcript) = 3
        /\ runs[r2].transcript[2].role = "model"

\* C8: a completion call is issued only by a send whose user message the store
\* has acknowledged (the document is in the store with its timestamp), and a
\* send whose user-message append failed makes no completion call.
C8_AppendBeforeCompletion ==
    \A r \in RunIds :
        /\ runs[r].calls > 0 =>
              /\ runs[r].userStored
              /\ \E i \in 1..Len(store) :
                    /\ store[i].sender = "user"
                    /\ store[i].text = runs[r].text
                    /\ store[i].ts > 0
        /\ runs[r].userFailed => (runs[r].calls = 0 /\ runs[r].pc # "fetch")

C8_Witness ==
    \E r1, r2 \in RunIds :
        /\ runs[r1].userFailed /\ runs[r1].pc \in Terminal
        /\ runs[r2].calls > 0 /\ runs[r2].userStored

\* C9 (as claimed): a send whose user-message append failed issues no append of
\* a bot or error message; once it is the last send and nothing is in flight,
\* the error indicator is set and the busy flag is false.
C9_UserAppendFailureOnlyIndicated ==
    \A r \in RunIds :
        runs[r].userFailed
        => /\ runs[r].errIssued = 0
           /\ runs[r].pc \in Terminal
           /\ (r = Len(runs) /\ Quiescent) => (error # ErrNull /\ ~isLoading)

\* C10 (as claimed): a send that has returned, whose user message was stored
\* and whose completion call failed, has appended exactly one bot message,
\* flagged isError, with a non-empty error text.
C10_ErrorMessagePersisted ==
    \A r \in RunIds :
        (runs[r].pc \in Terminal /\ runs[r].userStored /\ CompletionFailed(r))
        => /\ Len(runs[r].bots) = 1
           /\ runs[r].bots[1].isError
           /\ runs[r].bots[1].text # <<>>


\* The 2xx answers whose payload is malformed or empty.
Malformed == {"noCandidates", "noText", "emptyText", "badJson"}

\* C11 (as claimed): when the completion call of a send is answered 2xx with a
\* malformed or empty payload, the send takes the success path: its next step
\* is the append of a bot message whose text is exactly the fallback text, and
\* the error indicator is left as it was.
C11_MalformedDegradesToFallback ==
    [][ \A r \in RunIds :
          ( /\ runs[r].pc = "fetch"
            /\ runs'[r].pc # "fetch"
            /\ Answer(fetches + 1) \in Malformed )
          => /\ runs'[r].pc = "botAppend"
             /\ store' # <<>>
             /\ store'[Len(store')] = BotDoc(nextId, FallbackText, FALSE)
             /\ error' = error ]_vars

\* C12 (as claimed): whatever steps fail, the promise returned by
\* handleSendMessage resolves: no send ends with an uncaught rejection.
C12_NeverRejects ==
    \A r \in RunIds : runs[r].pc # "rejected"

\* A step in which an invocation of handleSendMessage returned at its guard:
\* the recorded cause changes, or a starter-prompt timer is consumed and no
\* send starts.
GuardReturned ==
    \/ noop' # noop
    \/ Len(timers') < Len(timers) /\ Len(runs') = Len(runs)

C14_AllSucceeded ==
    /\ subAlive
    /\ \A r \in RunIds :
          /\ runs[r].pc = "done"
          /\ runs[r].idleAtStart
          /\ runs[r].userStored
          /\ runs[r].errIssued = 0
          /\ Len(runs[r].bots) = 1
    /\ messages \in { FetchedMessages(variant, d) : d \in SnapshotDocs(variant, store) }

\* The list alternates user, bot, user, bot, with strictly increasing timestamps.
C14_Alternating ==
    /\ \A i \in 1..Len(messages) :
          /\ messages[i].sender = (IF i % 2 = 1 THEN "user" ELSE "bot")
          /\ messages[i].ts > 0
    /\ \A i \in 1..(Len(messages) - 1) : messages[i].ts < messages[i + 1].ts

\* C14 (as claimed): for every N >= 0, after N sends that each succeed, one
\* after the other from an empty conversation, the list shown after the last
\* snapshot has exactly 2N messages, alternating user, bot, with strictly
\* increasing timestamps.
C14_TwoPerSend ==
    C14_AllSucceeded =>
        /\ Len(messages) = 2 * Len(runs)
        /\ C14_Alternating

\* C14 (amended): the same for every N >= 1; for N = 0 the list is empty or
\* holds only the synthetic welcome message.
C14_TwoPerSendFromOne ==
    C14_AllSucceeded =>
        IF runs = <<>>
        THEN messages \in { <<>>, << WelcomeMessage >> }
        ELSE /\ Len(messages) = 2 * Len(runs)
             /\ C14_Alternating

\* Two sends succeeded one after the other and the snapshot is shown.
C14_Witness ==
    /\ C14_AllSucceeded
    /\ Len(runs) = 2
    /\ Len(messages) = 4

\* C15 (as claimed): in every reachable state the message list that is rendered
\* is ordered by non-decreasing timestamp, a just-written message whose server
\* timestamp is still pending coming after every message that has one.
C15_RenderedInTimestampOrder ==
    \A i, j \in 1..Len(messages) :
        i < j =>
            /\ ~(messages[i].ts = 0 /\ messages[j].ts > 0)
            /\ (messages[i].ts > 0 /\ messages[j].ts > 0) => messages[i].ts <= messages[j].ts

\* ------------------------------------------- the client-side sort on its own
\* The sort of the clientsort subscription callback, applied to snapshots whose
\* documents may carry equal timestamps or none (0).
SortMaxDocs == 3
SortMaxTs == 2

SortStores ==
    UNION { { [i \in 1..n |->
                 [ (IF i % 2 = 1 THEN UserDoc(i, Prompt) ELSE BotDoc(i, ReplyText, FALSE))
                   EXCEPT !.ts = t[i] ]] : t \in [1..n -> 0..SortMaxTs] }
            : n \in 0..SortMaxDocs }

InitSort ==
    /\ variant = "clientsort"
    /\ apiKey = TRUE
    /\ script = <<"ok", "ok", "ok">>
    /\ authPhase = "signedIn"
    /\ subAlive = TRUE
    /\ userId = "u1"
    /\ isAuthReady = TRUE
    /\ messages = <<>>
    /\ input = <<>>
    /\ isLoading = FALSE
    /\ error = ErrNull
    /\ store \in SortStores
    /\ clock = SortMaxTs
    /\ nextId = Len(store) + 1
    /\ fetches = 0
    /\ runs = <<>>
    /\ timers = <<>>
    /\ noop = "none"

NextSort == SnapshotDeliver

SortSpec == InitSort /\ [][NextSort]_vars

\* C16 (as claimed): the order shown does not depend on the order of arrival:
\* any two permutations of the documents of a snapshot are sorted by the
\* callback into the same sequence, equal and missing timestamps included.
C16_SortIndependentOfArrival ==
    \A d1, d2 \in SnapshotDocs(variant, store) :
        FetchedMessages(variant, d1) = FetchedMessages(variant, d2)

\* C17 (as claimed): on every transition Idle -> Sending the error indicator
\* is cleared, the input buffer is cleared, and exactly one user message
\* carrying the submitted text is appended to the store.
C17_SendClearsErrorAndInput ==
    [][ Len(runs') = Len(runs) + 1 =>
          /\ error' = ErrNull
          /\ input' = <<>>
          /\ store' = Append(store, UserDoc(nextId, runs'[Len(runs')].text)) ]_vars

\* C18 (as claimed): once anonymous sign-in has failed, the error banner is set
\* and stays set, and sending is blocked: no message is appended to the store
\* and no completion call is made.
C18_AuthFailureBannerAndBlock ==
    authPhase = "failed" =>
        /\ error # ErrNull
        /\ store = <<>>
        /\ runs = <<>>
        /\ fetches = 0

\* C19 (as claimed): a subscription error and a refused store write each set
\* the error banner; the banner, once set, remains set in every later state;
\* and after a subscription error the listener is not attached again.
C19_BannerPersistent ==
    [][ /\ error # ErrNull => error' # ErrNull
        /\ (subAlive /\ ~subAlive') => error' # ErrNull
        /\ (\E i \in 1..Len(store) : \A j \in 1..Len(store') : store'[j].id # store[i].id)
              => error' # ErrNull
        /\ (authPhase # "start" /\ ~subAlive) => ~subAlive' ]_vars

\* C20 (as claimed): every message persisted by the pipeline has a non-empty
\* text, and the text of a user message is non-empty after trimming.
C20_PersistedTextNonEmpty ==
    \A i \in 1..Len(store) :
        /\ store[i].text # <<>>
        /\ store[i].text # UNDEFINED
        /\ store[i].sender = "user" => Trim(store[i].text) # <<>>

\* C21 (as claimed): the transcript of a send is built from the message list as
\* it was in memory when the send was invoked plus the new text: a snapshot
\* delivered since, the one holding the new user message included, changes
\* nothing, and the new text is its last turn and only that.
C21_TranscriptFromListAtInvocation ==
    \A r \in RunIds :
        runs[r].calls > 0
        => /\ runs[r].transcript =
                 ChatHistory(variant, runs[r].listAtStart, runs[r].text)
           /\ \A i \in 1..Len(runs[r].listAtStart) :
                 runs[r].listAtStart[i].id # runs[r].userDoc

\* C22: the in-memory message list changes only in the subscription callback,
\* which replaces it by what it makes of the delivered snapshot; a step that
\* changes the list is no step of handleSendMessage (no send starts, returns
\* at the guard or moves on, and nothing is written or fetched).
C22_ListOwnedBySubscription ==
    [][ messages' # messages =>
          /\ subAlive
          /\ messages' \in { FetchedMessages(variant, d) : d \in SnapshotDocs(variant, store) }
          /\ UNCHANGED << runs, timers, noop, store, nextId, clock, fetches,
                          input, isLoading, error >> ]_vars

\* A send has run to its end and the list shows its two messages.
C22_Witness ==
    /\ \E r \in RunIds : runs[r].pc = "done" /\ runs[r].listAtStart # messages
    /\ Len(messages) = 2
    /\ messages[1].sender = "user"
    /\ messages[2].sender = "bot"

\* C23 (as claimed): in every reachable state, while a store append or a
\* completion call of any send is outstanding, the busy flag is true.
C23_BusyWhileInFlight ==
    InFlight # {} => isLoading

\* The synthetic welcome message is in list l.
HasWelcomeIn(l) == \E i \in 1..Len(l) : l[i].id = WelcomeId

\* C24: the welcome message is in the in-memory list exactly when the last
\* delivered snapshot was empty (and then it is the whole list, in the versions
\* that have one); it is never in the store and never a turn of a transcript.
C24_WelcomeOnlyForEmptySnapshot ==
    /\ [](/\ HasWelcomeIn(messages) => (HasWelcome(variant) /\ messages = << WelcomeMessage >>)
          /\ ~HasWelcomeIn(store)
          /\ \A r \in RunIds : \A i \in 1..Len(runs[r].transcript) :
                runs[r].transcript[i].text # WelcomeText)
    /\ [][ (messages' # messages /\ HasWelcome(variant)) =>
              (HasWelcomeIn(messages') <=> store = <<>>) ]_vars

\* A send that was invoked with the welcome message on screen called the
\* endpoint, and the list now shows the stored messages instead.
C24_Witness ==
    /\ \E r \in RunIds :
          /\ runs[r].listAtStart = << WelcomeMessage >>
          /\ runs[r].calls > 0
          /\ runs[r].transcript = << [role |-> "user", text |-> runs[r].text] >>
    /\ messages # <<>>
    /\ ~HasWelcomeIn(messages)

WithoutTs(l) == SelectSeq(l, LAMBDA m : m.ts = 0)

\* No message with a timestamp comes before one without.
PendingFirst(l) ==
    \A i, j \in 1..Len(l) : i < j => ~(l[i].ts > 0 /\ l[j].ts = 0)

\* C26: in the clientsort version a message without a timestamp is ordered as
\* if its timestamp were 0: before every message that has one, the messages
\* without a timestamp keeping the order they have in the snapshot.
C26_PendingSortedFirst ==
    variant = "clientsort" =>
        /\ PendingFirst(messages)
        /\ \A d \in SnapshotDocs(variant, store) :
              /\ PendingFirst(FetchedMessages(variant, d))
              /\ WithoutTs(FetchedMessages(variant, d)) = WithoutTs(d)

\* Two messages without a timestamp, delivered in the order 2, 1, are shown in
\* that order ahead of a message that has one.
C26_Witness ==
    /\ variant = "clientsort"
    /\ Len(messages) = 3
    /\ messages[1].ts = 0 /\ messages[1].id = 3
    /\ messages[2].ts = 0 /\ messages[2].id = 1
    /\ messages[3].ts > 0

\* C27: for every accepted send, the text of the user message appended to the
\* store is the text of the final role=user turn of the transcript sent for
\* that send, although the input buffer was cleared before either was used.
C27_StoredTextIsLastTurn ==
    \A r \in RunIds :
        runs[r].calls > 0 =>
            /\ runs[r].transcript # <<>>
            /\ runs[r].transcript[Len(runs[r].transcript)].role = "user"
            /\ \E i \in 1..Len(store) :
                  /\ store[i].id = runs[r].userDoc
                  /\ store[i].sender = "user"
                  /\ store[i].text = runs[r].transcript[Len(runs[r].transcript)].text

\* A send of a text with blanks around it has called the endpoint, and the
\* input buffer is empty.
C27_Witness ==
    \E r \in RunIds :
        /\ runs[r].calls > 0
        /\ input = <<>>
        /\ \E i \in 1..Len(store) :
              /\ store[i].id = runs[r].userDoc
              /\ store[i].text = <<SP, "a", SP>>

====
